---- MODULE Spec2Model ----
(***************************************************************************)
(* Model of the sparse pressure solvers of PhiFlow                         *)
(* (phi/physics/pressuresolver/sparse.py), of the SciPy backend primitives *)
(* they rely on (phi/math/scipy_backend.py) and of the struct context      *)
(* scopes (phi/struct/context.py).                                         *)
(*                                                                         *)
(* Conventions.                                                            *)
(*  - Grid cells are multi-indices (sequences) with 0-based coordinates,   *)
(*    as in numpy; axes are numbered 1..d (Python's dim + 1).              *)
(*  - A mask value v in 0..Scale stands for the real number v / Scale, so  *)
(*    Scale is 1.0 and binary masks use only 0 and Scale.  A matrix entry  *)
(*    e stands for e / Unit with Unit = Scale * Scale, so that products of *)
(*    two mask values are exact.                                           *)
(*  - The masks have a batch axis and a channel axis of extent 1 in the    *)
(*    code; both are dropped here.                                         *)
(***************************************************************************)
EXTENDS Integers, Sequences, FiniteSets, TLC

VARIABLES
    dimensions,            \* grid shape of the domain (argument dimensions)
    extended_active_mask,  \* domain.active_tensor(extend=1)
    extended_fluid_mask,   \* domain.accessible_tensor(extend=1)
    periodic,              \* sparse_pressure_matrix: argument periodic
    A,                     \* the matrix returned by sparse_pressure_matrix
    matrix_pc,             \* "call" before, "return" after sparse_pressure_matrix
    ctor_args,             \* the arguments SparseCG.__init__ was called with
    cg_state,              \* "new", "constructed" or "AssertionError"
    self,                  \* the attributes of the SparseCG instance
    solve_pc,              \* position of SparseCG.solve: "idle", "while", "returned"
    pressure_guess,        \* argument pressure_guess of the solve call
    loop_vars,             \* while_loop: loop_vars
    while_i,               \* while_loop: i
    result,                \* the tuple returned by the last SparseCG.solve
    divergence,            \* SparseSciPy.solve: argument divergence
    scipy_returns,         \* the calls of SparseSciPy.solve made so far
    STRUCT_CONTEXT_STACK,  \* context.py: the module-level list _STRUCT_CONTEXT_STACK
    with_blocks,           \* the with statements whose body the program is inside
    context_pc,            \* "run", "left", "raise", "unwind", "caught" (context scopes)
    backend,               \* math.choose_backend(divergence): "SciPy" or "TensorFlow"
    closures,              \* the pressure_gradient closures the backend holds
    backward               \* the last run of a pressure_gradient closure

domain_vars == <<dimensions, extended_active_mask, extended_fluid_mask>>
matrix_vars == <<periodic, matrix_pc>>
cg_vars     == <<ctor_args, cg_state, self, solve_pc, pressure_guess, loop_vars, while_i, result>>
scipy_vars  == <<divergence, scipy_returns>>

context_vars == <<STRUCT_CONTEXT_STACK, with_blocks, context_pc>>

gradient_vars == <<backend, closures, backward>>

vars == <<domain_vars, A, matrix_vars, cg_vars, scipy_vars, context_vars, gradient_vars>>

(***************************************************************************)
(* Bounds of the model.                                                    *)
(***************************************************************************)
\* mask values are the multiples of 1/Scale in [0, 1]
Scale == 2
\* one-dimensional grids have 1..MaxLen cells
MaxLen == 3
\* two-dimensional grids have at most MaxCells cells
MaxCells == 6
\* the solvers run on a one-dimensional grid of SolverLen cells
SolverLen == 2
\* numeric iteration limits are 0..MaxIter
MaxIter == 2
\* residual magnitudes are 0..MaxResidual, accuracies 1..MaxResidual
MaxResidual == 2
\* divergence values are -MaxDiv..MaxDiv
MaxDiv == 1

Unit == Scale * Scale
MaskValues == 0 .. Scale
BinaryValues == {0, Scale}

Min(a, b) == IF a <= b THEN a ELSE b

(***************************************************************************)
(* numpy index arithmetic (C order).                                       *)
(***************************************************************************)
RECURSIVE prod(_)
prod(s) == IF s = <<>> THEN 1 ELSE Head(s) * prod(Tail(s))

RECURSIVE unravel_index(_, _)
unravel_index(k, dims) ==
    IF dims = <<>> THEN <<>>
    ELSE LET rest == prod(Tail(dims))
         IN  <<k \div rest>> \o unravel_index(k % rest, Tail(dims))

RECURSIVE ravel_multi_index(_, _)
ravel_multi_index(idx, dims) ==
    IF dims = <<>> THEN 0
    ELSE Head(idx) * prod(Tail(dims)) + ravel_multi_index(Tail(idx), Tail(dims))

\* the index set of a tensor with 2 more entries than dims along every axis
RECURSIVE ExtCells(_)
ExtCells(dims) ==
    IF dims = <<>> THEN {<<>>}
    ELSE {<<h>> \o t : h \in 0 .. (Head(dims) + 1), t \in ExtCells(Tail(dims))}

\* gridpoints_linear = np.arange(N)
gridpoints_linear(dims) == 0 .. (prod(dims) - 1)

\* gridpoints = np.stack(np.unravel_index(gridpoints_linear, dimensions))
gridpoints(dims) == [k \in gridpoints_linear(dims) |-> unravel_index(k, dims)]

(***************************************************************************)
(* sparse_pressure_matrix: the slices of the extended masks.  For the grid *)
(* cell g the slice element is the extended cell returned here.            *)
(***************************************************************************)
upper_indices(g, dim) == [i \in DOMAIN g |-> IF i = dim THEN g[i] + 2 ELSE g[i] + 1]

center_indices(g, dim) == [i \in DOMAIN g |-> IF i = dim THEN g[i] + 1 ELSE g[i] + 1]

lower_indices(g, dim) == [i \in DOMAIN g |-> IF i = dim THEN g[i] ELSE g[i] + 1]

self_active(active, g, dim) == active[center_indices(g, dim)]

\* variant: the upper stencil without the factor self_active
stencil_upper_unmasked(active, g, dim) == active[upper_indices(g, dim)] * Scale

stencil_upper(active, g, dim) == active[upper_indices(g, dim)] * self_active(active, g, dim)

\* variant: the lower stencil without the factor self_active
stencil_lower_unmasked(active, g, dim) == active[lower_indices(g, dim)] * Scale

stencil_lower(active, g, dim) == active[lower_indices(g, dim)] * self_active(active, g, dim)

\* variant: the upper neighbour counted twice, the lower one never
stencil_center_upper_twice(fluid, g, dim) ==
    - fluid[upper_indices(g, dim)] - fluid[upper_indices(g, dim)]

\* in mask units (1/Scale)
stencil_center(fluid, g, dim) == - fluid[upper_indices(g, dim)] - fluid[lower_indices(g, dim)]

\* dim_direction, added to (sign = 1) or subtracted from (sign = -1) every gridpoint
shifted(points, dim, sign) ==
    [k \in DOMAIN points |->
        [i \in DOMAIN points[k] |-> IF i = dim THEN points[k][i] + sign ELSE points[k][i]]]

\* collapsed_gather_nd(periodic, [dim, side]): the flag of one axis and side
collapsed_gather_nd(per, dim, side) == per[dim][side + 1]

(***************************************************************************)
(* wrap_or_discard: the neighbour references that stay inside the grid.    *)
(* Returns the linear index of every in-range neighbour (points) and the   *)
(* positions of the cells that have one (idx).  The flag is not read.      *)
(***************************************************************************)
wrap_or_discard(indices, dim, dims, per) ==
    LET upper_in_range_inx ==
            {k \in DOMAIN indices : indices[k][dim] < dims[dim] /\ indices[k][dim] >= 0}
        indices_linear ==
            [k \in upper_in_range_inx |-> ravel_multi_index(indices[k], dims)]
    IN  [points |-> indices_linear, idx |-> upper_in_range_inx]

\* A[rows, cols[rows]] = values[rows], for the positions in idx
SetEntries(M, idx, cols, values) ==
    [p \in DOMAIN M |->
        IF p[1] \in idx /\ cols[p[1]] = p[2] THEN values[p[1]] ELSE M[p]]

\* variant: the accumulated diagonal written without the clamp
ClampDiagonal_unclamped(entry) == entry * Scale

\* math.minimum(diagonal_entries, -1), in matrix units
ClampDiagonal(entry) == Min(entry * Scale, -Unit)

\* one pass of the loop "for dim in dims"
DimPass(st, dim, dims, active, fluid, per) ==
    LET pts   == gridpoints(dims)
        upper == wrap_or_discard(shifted(pts, dim, 1), dim, dims,
                                 collapsed_gather_nd(per, dim, 1))
        lower == wrap_or_discard(shifted(pts, dim, -1), dim, dims,
                                 collapsed_gather_nd(per, dim, 0))
        diag  == [k \in DOMAIN pts |-> st.diagonal_entries[k] + stencil_center(fluid, pts[k], dim)]
        A1    == SetEntries(st.A, upper.idx, upper.points,
                            [k \in DOMAIN pts |-> stencil_upper(active, pts[k], dim)])
        A2    == SetEntries(A1, lower.idx, lower.points,
                            [k \in DOMAIN pts |-> stencil_lower(active, pts[k], dim)])
    IN  [A |-> A2, diagonal_entries |-> diag]

RECURSIVE DimLoop(_, _, _, _, _, _)
DimLoop(st, dim, dims, active, fluid, per) ==
    IF dim > Len(dims) THEN st
    ELSE DimLoop(DimPass(st, dim, dims, active, fluid, per), dim + 1, dims, active, fluid, per)

sparse_pressure_matrix(dims, active, fluid, per) ==
    LET N    == prod(dims)
        lin  == gridpoints_linear(dims)
        st0  == [A |-> [p \in lin \X lin |-> 0],
                 diagonal_entries |-> [k \in lin |-> 0]]
        st   == DimLoop(st0, 1, dims, active, fluid, per)
    IN  [p \in lin \X lin |->
            IF p[1] = p[2] THEN ClampDiagonal(st.diagonal_entries[p[1]]) ELSE st.A[p]]

(***************************************************************************)
(* The contents of the two mask tensors while sparse_pressure_matrix runs. *)
(* The slices of lines 140-143 are views that are only read: the products  *)
(* and the negation allocate new arrays, and += of line 145 writes to      *)
(* diagonal_entries, which np.zeros allocated.                             *)
(***************************************************************************)
IsGhost(e, dims) == \E i \in DOMAIN e : e[i] = 0 \/ e[i] = dims[i] + 1

\* variant: self_active multiplied in place by the lower neighbour, which
\* writes through the view into the active mask
MasksAfterPass_inplace(st, dim, dims) ==
    [st EXCEPT !.active =
        [e \in DOMAIN st.active |->
            IF IsGhost(e, dims) THEN st.active[e]
            ELSE (st.active[e] * st.active[[e EXCEPT ![dim] = @ - 1]]) \div Scale]]

\* the masks after one pass of the loop "for dim in dims"
MasksAfterPass(st, dim, dims) == st

RECURSIVE MasksLoop(_, _, _)
MasksLoop(st, dim, dims) ==
    IF dim > Len(dims) THEN st
    ELSE MasksLoop(MasksAfterPass(st, dim, dims), dim + 1, dims)

\* the masks when sparse_pressure_matrix returns
MasksAfter(dims, active, fluid) == MasksLoop([active |-> active, fluid |-> fluid], 1, dims)

\* the caller's masks after a call that passed them to sparse_pressure_matrix
MasksKept ==
    LET after == MasksAfter(dimensions, extended_active_mask, extended_fluid_mask)
    IN  /\ dimensions' = dimensions
        /\ extended_active_mask' = after.active
        /\ extended_fluid_mask' = after.fluid

(***************************************************************************)
(* Inputs of sparse_pressure_matrix.                                       *)
(***************************************************************************)
\* the grid of the periodic test of the specification
PeriodicTestShape == <<1, 6>>

Shapes1D == {<<n>> : n \in 1 .. MaxLen}
Shapes2D == {<<a, b>> : a \in 1 .. MaxCells, b \in 1 .. MaxCells}

Shapes == Shapes1D \cup {s \in Shapes2D : prod(s) <= MaxCells}

\* every mask over the extended grid
FullMasks(dims) == [ExtCells(dims) -> MaskValues]

\* binary masks whose ghost layer holds one value (a padded tensor)
PaddedMasks(dims) ==
    {[e \in ExtCells(dims) |->
        IF IsGhost(e, dims) THEN ghost
        ELSE inner[ravel_multi_index([i \in DOMAIN e |-> e[i] - 1], dims)]] :
     ghost \in BinaryValues, inner \in [gridpoints_linear(dims) -> BinaryValues]}

\* masks that are constant inside and constant on the ghost layer
UniformMasks(dims) ==
    {[e \in ExtCells(dims) |-> IF IsGhost(e, dims) THEN ghost ELSE inner] :
     ghost \in BinaryValues, inner \in BinaryValues}

\* the masks enumerated for a grid: all of them in one dimension
MasksFor(dims) == IF Len(dims) = 1 THEN FullMasks(dims) ELSE PaddedMasks(dims)

\* pairs (active mask, fluid mask): one of the two ranges over MasksFor, the
\* other over the uniform masks
MaskPairs(dims) ==
    (MasksFor(dims) \X UniformMasks(dims)) \cup (UniformMasks(dims) \X MasksFor(dims))

\* a grid whose cells are all active and accessible, behind a closed
\* (ghost layer not accessible) or an open (accessible) boundary
SolverDomains(dims) ==
    {<<[e \in ExtCells(dims) |-> IF IsGhost(e, dims) THEN 0 ELSE Scale],
       [e \in ExtCells(dims) |-> IF IsGhost(e, dims) THEN ghost ELSE Scale]>> :
     ghost \in BinaryValues}

NotPeriodic(dims) == [i \in DOMAIN dims |-> <<FALSE, FALSE>>]

\* not periodic, or periodic on both sides of one axis
PeriodicFlags(dims) ==
    {NotPeriodic(dims)} \cup
    {[i \in DOMAIN dims |-> IF i = ax THEN <<TRUE, TRUE>> ELSE <<FALSE, FALSE>>] :
     ax \in DOMAIN dims}

(***************************************************************************)
(* Python values: numbers, strings and None.                               *)
(***************************************************************************)
PyNum(n) == [type |-> "Number", num |-> n, str |-> ""]
PyStr(t) == [type |-> "str", num |-> 0, str |-> t]
PyNone   == [type |-> "NoneType", num |-> 0, str |-> ""]

\* isinstance(v, Number)
IsNumber(v) == v.type = "Number"

\* a pressure_guess: None, or a field
NoGuess == [given |-> FALSE, field |-> <<>>]
Guess(f) == [given |-> TRUE, field |-> f]

\* no SparseCG instance, no call of its solve
NoInstance == [accuracy |-> PyNone, gradient_accuracy |-> PyNone, max_iterations |-> PyNone,
               max_gradient_iterations |-> PyNone, autodiff |-> FALSE]
NoArgs == NoInstance
NoLoopVars == [x |-> [start |-> "zeros", updates |-> 0], residual |-> 0, loop_index |-> 0]
NoResult == [pressure |-> <<>>, iterations |-> PyNone]

CGIdle ==
    /\ ctor_args = NoArgs
    /\ cg_state = "new"
    /\ self = NoInstance
    /\ solve_pc = "idle"
    /\ pressure_guess = NoGuess
    /\ loop_vars = NoLoopVars
    /\ while_i = 0
    /\ result = NoResult

SciPyIdle ==
    /\ divergence = <<>>
    /\ scipy_returns = {}

\* the cell of a free variable that has not been assigned
Unbound == [type |-> "unbound", num |-> 0, str |-> ""]

\* no pressure_gradient has run
NoBackward == [call |-> 0, raised |-> "", max_iterations |-> PyNone, accuracy |-> PyNone]

\* numpy arrays are handled by the SciPy backend, which holds no closure
GradientIdle ==
    /\ backend = "SciPy"
    /\ closures = <<>>
    /\ backward = NoBackward

\* no struct scope has been entered
ContextIdle ==
    /\ STRUCT_CONTEXT_STACK = <<>>
    /\ with_blocks = <<>>
    /\ context_pc = "run"

(***************************************************************************)
(* Specification of the operator builder.                                  *)
(***************************************************************************)
InitMatrix ==
    /\ GradientIdle
    /\ ContextIdle
    /\ dimensions \in Shapes
    /\ \E masks \in MaskPairs(dimensions) :
          /\ extended_active_mask = masks[1]
          /\ extended_fluid_mask = masks[2]
    /\ periodic \in PeriodicFlags(dimensions)
    /\ A = <<>>
    /\ matrix_pc = "call"
    /\ CGIdle
    /\ SciPyIdle

BuildMatrix ==
    /\ matrix_pc = "call"
    /\ A' = sparse_pressure_matrix(dimensions, extended_active_mask,
                                   extended_fluid_mask, periodic)
    /\ matrix_pc' = "return"
    /\ MasksKept
    /\ UNCHANGED <<context_vars, gradient_vars, periodic, cg_vars, scipy_vars>>

NextMatrix == BuildMatrix

SpecMatrix == InitMatrix /\ [][NextMatrix]_vars

(***************************************************************************)
(* Properties of the operator builder.                                     *)
(***************************************************************************)
Returned == matrix_pc = "return"

Rank == Len(dimensions)
Cells == gridpoints_linear(dimensions)

\* the extended-mask cell of grid cell k, and the cell one step from it
Centre(k) == [i \in 1 .. Rank |-> unravel_index(k, dimensions)[i] + 1]
Step(e, dim, s) == [e EXCEPT ![dim] = @ + s]
InGrid(e) == \A i \in 1 .. Rank : e[i] >= 1 /\ e[i] <= dimensions[i]
LinearOf(e) == ravel_multi_index([i \in 1 .. Rank |-> e[i] - 1], dimensions)

\* sum over the axes 1..dim of the fluid mask at both neighbours of cell k
RECURSIVE AccessibleNeighbours(_, _)
AccessibleNeighbours(k, dim) ==
    IF dim = 0 THEN 0
    ELSE extended_fluid_mask[Step(Centre(k), dim, 1)]
         + extended_fluid_mask[Step(Centre(k), dim, -1)]
         + AccessibleNeighbours(k, dim - 1)

OffDiagonalNonzeros(i) == {j \in Cells : j /= i /\ A[<<i, j>>] /= 0}

\* C1: every diagonal entry of the returned matrix is <= -1, for every grid
\* shape and every pair of masks with values in [0, 1].
C1_DiagonalAtMostMinusOne ==
    Returned => \A i \in Cells : A[<<i, i>>] <= -Unit

\* a cell without any active or accessible neighbour got the diagonal -1
C1_Witness ==
    /\ Returned
    /\ \E k \in Cells :
         /\ \A dim \in 1 .. Rank : \A s \in {-1, 1} :
               /\ extended_fluid_mask[Step(Centre(k), dim, s)] = 0
               /\ extended_active_mask[Step(Centre(k), dim, s)] = 0
         /\ A[<<k, k>>] = -Unit

\* C2: the returned matrix is symmetric, A[i,j] = A[j,i] for all grid cells
\* i, j (the rows and columns of the matrix are the non-ghost cells).
C2_Symmetric ==
    Returned => \A i \in Cells : \A j \in Cells : A[<<i, j>>] = A[<<j, i>>]

\* two coupled cells exist, and two adjacent cells of which one is inactive
C2_Witness ==
    /\ Returned
    /\ \E i \in Cells : \E j \in Cells : i /= j /\ A[<<i, j>>] > 0
    /\ \E k \in Cells : \E dim \in 1 .. Rank :
         /\ InGrid(Step(Centre(k), dim, -1))
         /\ extended_active_mask[Centre(k)] = 0
         /\ extended_active_mask[Step(Centre(k), dim, -1)] = Scale

\* C3: on the 1x6 grid, periodic along the axis of length 6 and with all
\* cells active, every row has exactly 2 off-diagonal nonzeros, the wrapped
\* neighbours (k - 1) mod 6 and (k + 1) mod 6.
C3_PeriodicWrap ==
    ( /\ Returned
      /\ dimensions = PeriodicTestShape
      /\ periodic[2] = <<TRUE, TRUE>>
      /\ \A e \in DOMAIN extended_active_mask : extended_active_mask[e] = Scale )
    => \A k \in Cells :
         /\ Cardinality(OffDiagonalNonzeros(k)) = 2
         /\ OffDiagonalNonzeros(k) = {(k + 1) % 6, (k + 5) % 6}

\* C4: without periodicity, the entry A[c,n] of a neighbour n of c inside
\* the grid is active[n] * active[c]; every other off-diagonal entry of the
\* row is absent (zero), in particular nothing is written for a neighbour
\* outside the grid.
C4_OffDiagonal ==
    (Returned /\ periodic = NotPeriodic(dimensions))
    => \A c \in Cells : \A m \in Cells \ {c} :
         LET adjacent == \E dim \in 1 .. Rank : \E s \in {-1, 1} :
                            /\ InGrid(Step(Centre(c), dim, s))
                            /\ LinearOf(Step(Centre(c), dim, s)) = m
         IN  A[<<c, m>>] = IF adjacent
                           THEN extended_active_mask[Centre(m)] * extended_active_mask[Centre(c)]
                           ELSE 0

\* an active cell with an active neighbour inside the grid, an active ghost
\* neighbour outside it, and an inactive neighbour inside it
C4_Witness ==
    /\ Returned
    /\ periodic = NotPeriodic(dimensions)
    /\ \E c \in Cells : \E dim \in 1 .. Rank : \E s \in {-1, 1} :
         /\ extended_active_mask[Centre(c)] > 0
         /\ InGrid(Step(Centre(c), dim, s))
         /\ A[<<c, LinearOf(Step(Centre(c), dim, s))>>] > 0
         /\ ~InGrid(Step(Centre(c), dim, -s))
         /\ extended_active_mask[Step(Centre(c), dim, -s)] > 0
    /\ \E c \in Cells : \E dim \in 1 .. Rank : \E s \in {-1, 1} :
         /\ extended_active_mask[Centre(c)] > 0
         /\ InGrid(Step(Centre(c), dim, s))
         /\ extended_active_mask[Step(Centre(c), dim, s)] = 0

\* C5: the diagonal entry of cell c is min(-(sum over the axes of the fluid
\* mask at the upper and at the lower neighbour of c), -1); ghost cells and
\* inactive accessible cells count, the cell's own active flag does not.
C5_Diagonal ==
    Returned => \A c \in Cells :
        A[<<c, c>>] = Min(-(AccessibleNeighbours(c, Rank) * Scale), -Unit)

\* an inactive cell whose diagonal is below -1 and counts an accessible
\* ghost cell and an accessible inactive cell different from it
C5_Witness ==
    /\ Returned
    /\ \E c \in Cells :
         /\ extended_active_mask[Centre(c)] = 0
         /\ A[<<c, c>>] < -Unit
         /\ \E dim \in 1 .. Rank : \E s \in {-1, 1} :
               /\ ~InGrid(Step(Centre(c), dim, s))
               /\ extended_fluid_mask[Step(Centre(c), dim, s)] > 0
               /\ extended_fluid_mask[Step(Centre(c), dim, -s)] > 0
               /\ extended_fluid_mask[Step(Centre(c), dim, -s)]
                    /= extended_fluid_mask[Step(Centre(c), dim, s)]
               /\ extended_active_mask[Step(Centre(c), dim, -s)] = 0

(***************************************************************************)
(* SparseCG.__init__                                                       *)
(***************************************************************************)
Same   == PyStr("same")
Mirror == PyStr("mirror")

\* assert isinstance(accuracy, Number)
assert_accuracy(accuracy) == IsNumber(accuracy)

\* assert gradient_accuracy == 'same' or isinstance(gradient_accuracy, Number)
assert_gradient_accuracy(gradient_accuracy) ==
    gradient_accuracy = Same \/ IsNumber(gradient_accuracy)

\* assert max_gradient_iterations in ['same', 'mirror'] or isinstance(..., Number)
assert_max_gradient_iterations(max_gradient_iterations) ==
    max_gradient_iterations \in {Same, Mirror} \/ IsNumber(max_gradient_iterations)

\* variant: the argument stored as passed
stored_gradient_accuracy_raw(accuracy, gradient_accuracy) == gradient_accuracy

\* self.gradient_accuracy = accuracy if gradient_accuracy == 'same' else gradient_accuracy
stored_gradient_accuracy(accuracy, gradient_accuracy) ==
    IF gradient_accuracy = Same THEN accuracy ELSE gradient_accuracy

\* the value assigned to self.max_gradient_iterations
stored_max_gradient_iterations(max_iterations, max_gradient_iterations) ==
    IF max_gradient_iterations = Same THEN max_iterations
    ELSE IF max_gradient_iterations = Mirror THEN Mirror
    ELSE max_gradient_iterations

\* variant: the assertion on autodiff left out
assert_not_autodiff_missing(max_gradient_iterations, autodiff) == TRUE

\* assert not autodiff, in the else branch of the if on max_gradient_iterations
assert_not_autodiff(max_gradient_iterations, autodiff) ==
    IF max_gradient_iterations = Same THEN TRUE
    ELSE IF max_gradient_iterations = Mirror THEN TRUE
    ELSE ~autodiff

\* the constructor: whether it raises, and the attributes of the instance
SparseCG_init(args) ==
    IF ~ ( /\ assert_accuracy(args.accuracy)
           /\ assert_gradient_accuracy(args.gradient_accuracy)
           /\ assert_max_gradient_iterations(args.max_gradient_iterations) )
    THEN [raised |-> TRUE, self |-> NoInstance]
    ELSE IF ~assert_not_autodiff(args.max_gradient_iterations, args.autodiff)
    THEN [raised |-> TRUE, self |-> NoInstance]
    ELSE [raised |-> FALSE,
          self |-> [accuracy |-> args.accuracy,
                    gradient_accuracy |->
                        stored_gradient_accuracy(args.accuracy, args.gradient_accuracy),
                    max_iterations |-> args.max_iterations,
                    max_gradient_iterations |->
                        stored_max_gradient_iterations(args.max_iterations,
                                                       args.max_gradient_iterations),
                    autodiff |-> args.autodiff]]

(***************************************************************************)
(* conjugate_gradient (phi.math.blas) and SciPyBackend.while_loop.         *)
(* The iterate x is recorded by its start vector and the number of updates *)
(* applied to it, the residual by its magnitude max(abs(residual)).        *)
(***************************************************************************)
\* loop_vars before the first iteration; r0 is the magnitude of k - A x0
cg_initial_vars(guess, r0) ==
    [x |-> [start |-> IF guess.given THEN "guess" ELSE "zeros", updates |-> 0],
     residual |-> r0, loop_index |-> 0]

\* continue while the largest residual is not below the accuracy
loop_condition(lv, accuracy) == lv.residual >= accuracy.num

\* one CG iteration; r is the magnitude of the new residual
loop_body(lv, r) ==
    [x |-> [lv.x EXCEPT !.updates = @ + 1], residual |-> r, loop_index |-> lv.loop_index + 1]

\* variant: the limit tested one iteration late
while_break_late(maximum_iterations, n) ==
    maximum_iterations /= PyNone /\ n > maximum_iterations.num

\* if maximum_iterations is not None and i == maximum_iterations: break
while_break(maximum_iterations, n) ==
    maximum_iterations /= PyNone /\ n = maximum_iterations.num

\* sparse_cg: the pair (result_vec reshaped, iterations)
sparse_cg_result(lv) == [pressure |-> lv.x, iterations |-> PyNum(lv.loop_index)]

(***************************************************************************)
(* The closure pressure_gradient of SparseCG.solve (lines 94-95).  It      *)
(* reads max_gradient_iterations from a cell of the frame of the call that *)
(* defined it; the cell is created unbound and assigned at line 102, after *)
(* with_custom_gradient has returned.  iteration is the frame's local of   *)
(* that name, None until line 97 assigns it.                               *)
(***************************************************************************)
\* a backend that keeps closures holds those of at most MaxCalls solve calls
MaxCalls == 2

\* def pressure_gradient(op, grad): the closure of a new frame
pressure_gradient == [max_gradient_iterations |-> Unbound, iteration |-> PyNone]

\* SciPyBackend.with_custom_gradient calls the function and drops gradient
with_custom_gradient_SciPy(held, gradient) == held

\* a differentiating backend registers gradient as the backward function
with_custom_gradient_registered(held, gradient) == Append(held, gradient)

with_custom_gradient(name, held, gradient) ==
    IF name = "SciPy" THEN with_custom_gradient_SciPy(held, gradient)
    ELSE with_custom_gradient_registered(held, gradient)

\* max_gradient_iterations = iteration if self.max_gradient_iterations ==
\* 'mirror' else self.max_gradient_iterations
mirrored_iterations(obj, iteration) ==
    IF obj.max_gradient_iterations = Mirror THEN iteration ELSE obj.max_gradient_iterations

\* lines 97 and 102 in the frame of the call in progress, whose closure is
\* the last one the backend was given
assign_max_gradient_iterations(held, obj, iteration) ==
    IF held = <<>> THEN held
    ELSE [held EXCEPT ![Len(held)] =
             [max_gradient_iterations |-> mirrored_iterations(obj, iteration),
              iteration |-> iteration]]

\* a call of the closure: the read of the free variable raises NameError
\* while the cell is unbound, else sparse_cg runs with these arguments
pressure_gradient_call(n, closure, obj) ==
    IF closure.max_gradient_iterations = Unbound
    THEN [call |-> n, raised |-> "NameError", max_iterations |-> PyNone, accuracy |-> PyNone]
    ELSE [call |-> n, raised |-> "", max_iterations |-> closure.max_gradient_iterations,
          accuracy |-> obj.gradient_accuracy]

(***************************************************************************)
(* Specification of the conjugate gradient solver.                         *)
(***************************************************************************)
Residuals == 0 .. MaxResidual
Accuracies == {PyNum(n) : n \in 1 .. MaxResidual}
Limits == {PyNum(n) : n \in 0 .. MaxIter}
\* iterations beyond this number are not explored
LoopBound == MaxIter + 2

CtorArgs ==
    [accuracy : Accuracies \cup {Same, PyNone},
     gradient_accuracy : Accuracies \cup {Same, PyNone},
     max_iterations : Limits \cup {PyNone},
     max_gradient_iterations : Limits \cup {Same, Mirror, PyNone},
     autodiff : BOOLEAN]

SolverShape == <<SolverLen>>

InitCG ==
    /\ GradientIdle
    /\ ContextIdle
    /\ dimensions = SolverShape
    /\ \E masks \in SolverDomains(dimensions) :
          /\ extended_active_mask = masks[1]
          /\ extended_fluid_mask = masks[2]
    /\ periodic = NotPeriodic(dimensions)
    /\ A = <<>>
    /\ matrix_pc = "call"
    /\ CGIdle
    /\ SciPyIdle

Construct(args) ==
    /\ cg_state = "new"
    /\ ctor_args' = args
    /\ LET made == SparseCG_init(args)
       IN  /\ cg_state' = IF made.raised THEN "AssertionError" ELSE "constructed"
           /\ self' = made.self
    /\ UNCHANGED <<context_vars, gradient_vars, domain_vars, A, matrix_vars, solve_pc, pressure_guess, loop_vars,
                   while_i, result, scipy_vars>>

\* SparseCG.solve up to the entry of the while loop
CGSolve(guess, r0) ==
    /\ cg_state = "constructed"
    /\ solve_pc \in {"idle", "returned"}
    /\ A' = sparse_pressure_matrix(dimensions, extended_active_mask, extended_fluid_mask,
                                   NotPeriodic(dimensions))
    /\ pressure_guess' = guess
    /\ loop_vars' = cg_initial_vars(guess, r0)
    /\ while_i' = 0
    /\ result' = NoResult
    /\ solve_pc' = "while"
    /\ MasksKept
    /\ self.autodiff \/ backend = "SciPy" \/ Len(closures) < MaxCalls
    /\ closures' = IF self.autodiff THEN closures
                   ELSE with_custom_gradient(backend, closures, pressure_gradient)
    /\ UNCHANGED <<context_vars, backend, backward, matrix_vars, ctor_args, cg_state, self,
                   scipy_vars>>

\* one pass of the while loop that reaches the body
WhileBody(r) ==
    /\ solve_pc = "while"
    /\ loop_condition(loop_vars, self.accuracy)
    /\ ~while_break(self.max_iterations, while_i)
    /\ while_i < LoopBound
    /\ loop_vars' = loop_body(loop_vars, r)
    /\ while_i' = while_i + 1
    /\ UNCHANGED <<context_vars, gradient_vars, domain_vars, A, matrix_vars, ctor_args, cg_state, self, solve_pc,
                   pressure_guess, result, scipy_vars>>

\* the loop ends, by its condition or by the break, and solve returns
WhileExit ==
    /\ solve_pc = "while"
    /\ \/ ~loop_condition(loop_vars, self.accuracy)
       \/ while_break(self.max_iterations, while_i)
    /\ result' = sparse_cg_result(loop_vars)
    /\ solve_pc' = "returned"
    /\ closures' = IF self.autodiff THEN closures
                   ELSE assign_max_gradient_iterations(closures, self,
                                                       sparse_cg_result(loop_vars).iterations)
    /\ UNCHANGED <<context_vars, backend, backward, domain_vars, A, matrix_vars, ctor_args,
                   cg_state, self, pressure_guess, loop_vars, while_i, scipy_vars>>

GuessInputs == {NoGuess, Guess([k \in gridpoints_linear(SolverShape) |-> 0])}

WhileStep == (\E r \in Residuals : WhileBody(r)) \/ WhileExit

NextCG ==
    \/ \E args \in CtorArgs : Construct(args)
    \/ \E guess \in GuessInputs : \E r0 \in Residuals : CGSolve(guess, r0)
    \/ \E r \in Residuals : WhileBody(r)
    \/ WhileExit

SpecCG == InitCG /\ [][NextCG]_vars

\* a call of solve runs to completion: the loop keeps stepping
FairSpecCG == SpecCG /\ WF_vars(WhileStep)

(***************************************************************************)
(* Properties of the conjugate gradient solver.                            *)
(***************************************************************************)
Constructed == cg_state = "constructed"
Rejected == cg_state = "AssertionError"

OtherArgsValid ==
    /\ IsNumber(ctor_args.accuracy)
    /\ ctor_args.gradient_accuracy = Same \/ IsNumber(ctor_args.gradient_accuracy)

\* C6: no SparseCG instance with max_gradient_iterations='mirror' and
\* autodiff=True exists; the constructor rejects the combination.
C6_MirrorAutodiffRejected ==
    (cg_state /= "new" /\ ctor_args.max_gradient_iterations = Mirror /\ ctor_args.autodiff)
    => (Rejected /\ ~Constructed)

\* C7: a numeric max_gradient_iterations with autodiff=True fails in the
\* constructor, so no instance exists and no solve starts; the same number
\* with autodiff=False is accepted and stored, and 'same' with autodiff=True
\* is accepted and stores max_iterations.
C7_NumericGradientIterations ==
    cg_state /= "new" =>
      /\ (IsNumber(ctor_args.max_gradient_iterations) /\ ctor_args.autodiff)
            => (Rejected /\ solve_pc = "idle")
      /\ (IsNumber(ctor_args.max_gradient_iterations) /\ ~ctor_args.autodiff /\ OtherArgsValid)
            => (Constructed /\ self.max_gradient_iterations = ctor_args.max_gradient_iterations)
      /\ (ctor_args.max_gradient_iterations = Same /\ ctor_args.autodiff /\ OtherArgsValid)
            => (Constructed /\ self.max_gradient_iterations = ctor_args.max_iterations)

\* the constructor has rejected a number together with autodiff=True
C7_Witness ==
    /\ Rejected
    /\ IsNumber(ctor_args.max_gradient_iterations)
    /\ ctor_args.autodiff
    /\ OtherArgsValid

\* C8: a non-numeric accuracy, or a gradient_accuracy that is neither a
\* number nor the default 'same', is rejected by the constructor; every
\* instance has a numeric accuracy and a numeric gradient_accuracy, which
\* is the accuracy when the argument was 'same'.
C8_NumericAccuracies ==
    cg_state /= "new" =>
      /\ ~IsNumber(ctor_args.accuracy) => Rejected
      /\ (ctor_args.gradient_accuracy /= Same /\ ~IsNumber(ctor_args.gradient_accuracy))
            => Rejected
      /\ Constructed =>
            /\ IsNumber(self.accuracy)
            /\ self.accuracy = ctor_args.accuracy
            /\ IsNumber(self.gradient_accuracy)
            /\ ctor_args.gradient_accuracy = Same => self.gradient_accuracy = self.accuracy
            /\ ctor_args.gradient_accuracy /= Same
                  => self.gradient_accuracy = ctor_args.gradient_accuracy

\* an instance built with the default gradient_accuracy
C8_Witness ==
    /\ Constructed
    /\ ctor_args.gradient_accuracy = Same
    /\ self.gradient_accuracy = ctor_args.accuracy

NumericLimit == IsNumber(self.max_iterations)

C10_Bounded ==
    (solve_pc \in {"while", "returned"} /\ NumericLimit) =>
      /\ while_i <= self.max_iterations.num
      /\ loop_vars.loop_index = while_i
      /\ loop_vars.x.updates = while_i
      /\ solve_pc = "returned" =>
            /\ result.pressure = loop_vars.x
            /\ result.iterations = PyNum(while_i)

C10_Terminates == (solve_pc = "while" /\ NumericLimit) ~> (solve_pc = "returned")

\* C10: with a numeric max_iterations the loop body runs at most
\* max_iterations times and the loop ends; solve then returns the current
\* iterate and the number of iterations done, also when the residual is
\* still above the accuracy.
C10_IterationLimit == []C10_Bounded /\ C10_Terminates

\* solve has returned at the limit with the residual above the accuracy
C10_Witness ==
    /\ solve_pc = "returned"
    /\ NumericLimit
    /\ self.max_iterations.num > 0
    /\ while_i = self.max_iterations.num
    /\ loop_vars.residual >= self.accuracy.num
    /\ result.iterations = self.max_iterations

(***************************************************************************)
(* SparseSciPy.solve.  Pressures are exact rationals <<num, den>> with     *)
(* den > 0 in lowest terms; <<0, 0>> is NaN, the value spsolve returns for *)
(* a singular matrix.  The rounding of astype(np.float32) is not modelled. *)
(***************************************************************************)
Abs(n) == IF n < 0 THEN -n ELSE n

RECURSIVE GCD(_, _)
GCD(a, b) == IF b = 0 THEN a ELSE GCD(b, a % b)

NaN == <<0, 0>>

Rational(num, den) ==
    LET g == GCD(Abs(num), Abs(den))
    IN  IF den > 0 THEN <<num \div g, den \div g>> ELSE <<(-num) \div g, (-den) \div g>>

Without(seq, k) == [n \in 1 .. (Len(seq) - 1) |-> IF n < k THEN seq[n] ELSE seq[n + 1]]

\* determinant of M restricted to the given rows and columns
RECURSIVE Det(_, _, _)
RECURSIVE DetSum(_, _, _, _)
Det(M, rows, cols) ==
    IF rows = <<>> THEN 1 ELSE DetSum(M, rows, cols, Len(cols))

DetSum(M, rows, cols, k) ==
    IF k = 0 THEN 0
    ELSE (IF k % 2 = 1 THEN 1 ELSE -1) * M[<<Head(rows), cols[k]>>]
            * Det(M, Tail(rows), Without(cols, k))
         + DetSum(M, rows, cols, k - 1)

\* scipy.sparse.linalg.spsolve(A, b): the solution of (M / Unit) x = b
spsolve(M, b) ==
    LET lin  == DOMAIN b
        n    == Cardinality(lin)
        seq  == [k \in 1 .. n |-> k - 1]
        det  == Det(M, seq, seq)
        Mk(c) == [p \in DOMAIN M |-> IF p[2] = c THEN Unit * b[p[1]] ELSE M[p]]
    IN  [c \in lin |-> IF det = 0 THEN NaN ELSE Rational(Det(Mk(c), seq, seq), det)]

\* np_solve_p: one direct solve per batch row
np_solve_p(div, M) == [row \in DOMAIN div |-> spsolve(M, div[row])]

\* SciPyBackend.py_func: the function applied to the inputs
py_func(value) == value

\* variant: a given guess is returned as the pressure
SparseSciPy_solve_from_guess(div, dims, active, fluid, guess) ==
    IF guess.given
    THEN [pressure |-> [row \in DOMAIN div |->
                          [c \in DOMAIN div[row] |-> Rational(guess.field[row][c], 1)]],
          iterations |-> PyNone]
    ELSE [pressure |-> py_func(np_solve_p(div, sparse_pressure_matrix(dims, active, fluid,
                                                                     NotPeriodic(dims)))),
          iterations |-> PyNone]

\* SparseSciPy.solve: the pair (pressure, None)
SparseSciPy_solve(div, dims, active, fluid, guess) ==
    [pressure |-> py_func(np_solve_p(div, sparse_pressure_matrix(dims, active, fluid,
                                                                 NotPeriodic(dims)))),
     iterations |-> PyNone]

(***************************************************************************)
(* Specification of the direct solver.                                     *)
(***************************************************************************)
DivValues == (-MaxDiv) .. MaxDiv

\* fields of batch size 1 over the grid
Fields(dims, values) == {<<f>> : f \in [gridpoints_linear(dims) -> values]}

ConstantField(dims, v) == <<[k \in gridpoints_linear(dims) |-> v]>>

SciPyGuesses(dims) == {NoGuess, Guess(ConstantField(dims, 0)), Guess(ConstantField(dims, 1))}

\* any padded active mask, behind a closed or an open boundary
SciPyDomains(dims) ==
    {<<active, dom[2]>> : active \in PaddedMasks(dims), dom \in SolverDomains(dims)}

InitSciPy ==
    /\ GradientIdle
    /\ ContextIdle
    /\ dimensions = SolverShape
    /\ \E masks \in SciPyDomains(dimensions) :
          /\ extended_active_mask = masks[1]
          /\ extended_fluid_mask = masks[2]
    /\ periodic = NotPeriodic(dimensions)
    /\ A = <<>>
    /\ matrix_pc = "call"
    /\ CGIdle
    /\ divergence \in Fields(dimensions, DivValues)
    /\ scipy_returns = {}

SciPySolve(guess) ==
    /\ A' = sparse_pressure_matrix(dimensions, extended_active_mask, extended_fluid_mask,
                                   NotPeriodic(dimensions))
    /\ LET ret == SparseSciPy_solve(divergence, dimensions, extended_active_mask,
                                    extended_fluid_mask, guess)
       IN  scipy_returns' = scipy_returns \cup
              {[guess |-> guess, pressure |-> ret.pressure, iterations |-> ret.iterations]}
    /\ MasksKept
    /\ UNCHANGED <<context_vars, gradient_vars, matrix_vars, cg_vars, divergence>>

NextSciPy == \E guess \in SciPyGuesses(dimensions) : SciPySolve(guess)

SpecSciPy == InitSciPy /\ [][NextSciPy]_vars

\* C9: SparseSciPy.solve returns for a non-None pressure_guess, the pressure
\* is the same for every pressure_guess (same divergence, same domain), and
\* the second return value is None.
C9_GuessIgnored ==
    \A r1 \in scipy_returns : \A r2 \in scipy_returns :
        /\ r1.pressure = r2.pressure
        /\ r1.iterations = PyNone

\* calls without and with a guess have returned a pressure that is a
\* number different from the guess in some cell
C9_Witness ==
    \E r1 \in scipy_returns : \E r2 \in scipy_returns :
        /\ ~r1.guess.given
        /\ r2.guess.given
        /\ \E c \in gridpoints_linear(dimensions) :
              /\ r2.pressure[1][c] /= NaN
              /\ r2.pressure[1][c] /= Rational(r2.guess.field[1][c], 1)

(***************************************************************************)
(* Specification of a caller that uses the builder and both solvers, one   *)
(* call at a time, and passes another domain from time to time.            *)
(***************************************************************************)
\* solvers built with the default accuracies and a limit of MaxIter
FrameCtorArgs ==
    [accuracy : {PyNum(1)}, gradient_accuracy : {Same}, max_iterations : {PyNum(MaxIter)},
     max_gradient_iterations : {Same}, autodiff : BOOLEAN]

InitFrame ==
    /\ GradientIdle
    /\ ContextIdle
    /\ dimensions = SolverShape
    /\ \E masks \in SciPyDomains(dimensions) :
          /\ extended_active_mask = masks[1]
          /\ extended_fluid_mask = masks[2]
    /\ periodic = NotPeriodic(dimensions)
    /\ A = <<>>
    /\ matrix_pc = "call"
    /\ ctor_args \in FrameCtorArgs
    /\ cg_state = "constructed"
    /\ self = SparseCG_init(ctor_args).self
    /\ solve_pc = "idle"
    /\ pressure_guess = NoGuess
    /\ loop_vars = NoLoopVars
    /\ while_i = 0
    /\ result = NoResult
    /\ divergence = ConstantField(dimensions, 1)
    /\ scipy_returns = {}

\* the caller turns to another domain; what it kept of earlier calls is dropped
SetDomain(masks) ==
    /\ solve_pc /= "while"
    /\ <<extended_active_mask, extended_fluid_mask>> /= masks
    /\ extended_active_mask' = masks[1]
    /\ extended_fluid_mask' = masks[2]
    /\ matrix_pc' = "call"
    /\ solve_pc' = "idle"
    /\ pressure_guess' = NoGuess
    /\ loop_vars' = NoLoopVars
    /\ while_i' = 0
    /\ result' = NoResult
    /\ scipy_returns' = {}
    /\ UNCHANGED <<context_vars, gradient_vars, dimensions, A, periodic, ctor_args, cg_state, self, divergence>>

\* on one domain the caller uses one of the three operations
FrameBuild == scipy_returns = {} /\ solve_pc = "idle" /\ BuildMatrix

FrameSciPy ==
    /\ matrix_pc = "call"
    /\ solve_pc = "idle"
    /\ \E guess \in SciPyGuesses(dimensions) : SciPySolve(guess)

FrameCG ==
    /\ matrix_pc = "call"
    /\ scipy_returns = {}
    /\ \/ \E guess \in GuessInputs : \E r0 \in Residuals : CGSolve(guess, r0)
       \/ \E r \in Residuals : WhileBody(r)
       \/ WhileExit

NextFrame ==
    \/ \E masks \in SciPyDomains(dimensions) : SetDomain(masks)
    \/ FrameBuild
    \/ FrameSciPy
    \/ FrameCG

SpecFrame == InitFrame /\ [][NextFrame]_vars

\* a step in which sparse_pressure_matrix returns, SparseSciPy.solve returns
\* or SparseCG.solve enters its loop
CallStep ==
    \/ matrix_pc = "call" /\ matrix_pc' = "return"
    \/ scipy_returns' /= scipy_returns /\ scipy_returns' /= {}
    \/ solve_pc /= "while" /\ solve_pc' = "while"

\* a later step of SparseCG.solve
LoopStep == solve_pc = "while"

\* C11: every step of sparse_pressure_matrix, SparseSciPy.solve and
\* SparseCG.solve leaves both extended masks and the solver's attributes as
\* they were; the matrix a call works with is the one built from the masks
\* of that call, whatever matrix an earlier call left behind, and the later
\* steps of the call keep it.
C11_MasksReadOnly ==
    [][ /\ (CallStep \/ LoopStep) =>
              /\ extended_active_mask' = extended_active_mask
              /\ extended_fluid_mask' = extended_fluid_mask
              /\ self' = self
        /\ CallStep =>
              A' = sparse_pressure_matrix(dimensions, extended_active_mask,
                                          extended_fluid_mask, periodic)
        /\ LoopStep => A' = A ]_vars

\* SparseCG.solve has returned after iterating, on masks with an active
\* cell whose lower neighbour is not active
C11_Witness ==
    /\ solve_pc = "returned"
    /\ while_i > 0
    /\ A = sparse_pressure_matrix(dimensions, extended_active_mask, extended_fluid_mask,
                                  periodic)
    /\ \E e \in DOMAIN extended_active_mask :
          /\ ~IsGhost(e, dimensions)
          /\ extended_active_mask[e] > 0
          /\ extended_active_mask[[e EXCEPT ![1] = @ - 1]] < Scale

(***************************************************************************)
(* sparse_pressure_matrix on masks of any extent.  The function does not   *)
(* compare the shape of a mask with dimensions; a mask of another extent   *)
(* ends the call only where numpy refuses an operation on the slices:      *)
(* the in-place addition of line 145 and the indexing of lines 151, 154.   *)
(***************************************************************************)
Max(a, b) == IF a >= b THEN a ELSE b

\* the index set of a tensor of the given shape
RECURSIVE TensorCells(_)
TensorCells(shape) ==
    IF shape = <<>> THEN {<<>>}
    ELSE {<<h>> \o t : h \in 0 .. (Head(shape) - 1), t \in TensorCells(Tail(shape))}

\* tensor.shape along the d spatial axes
np_shape(t, d) == [i \in 1 .. d |-> Cardinality({e[i] : e \in DOMAIN t})]

\* the shape the masks of a grid are documented to have
extended_shape(dims) == [i \in DOMAIN dims |-> dims[i] + 2]

\* the extent of x[1:-1], x[2:] and x[:-2] on an axis of extent m
slice_len(m) == Max(m - 2, 0)

\* the common shape of tensor[upper_indices], [center_indices], [lower_indices]
stencil_shape(t, d) == [i \in 1 .. d |-> slice_len(np_shape(t, d)[i])]

\* flatten(): element k of the flattened stencil is the stencil at this cell
flatten(k, shape) == unravel_index(k, shape)

\* diagonal_entries += operand: numpy broadcasts an operand of N elements or
\* of one element to the shape (N,) and raises ValueError for any other
broadcastable(size, N) == size = N \/ size = 1

\* the element of the operand that is added to diagonal_entries[k]
broadcast_index(k, size) == IF size = 1 THEN 0 ELSE k

\* x.flatten()[idx] raises IndexError if an index is not below x.size
in_bounds(idx, size) == \A k \in idx : k < size

\* one pass of the loop "for dim in dims"; raised names the exception that
\* ended the call, "" if none did
ShapedPass(st, dim, dims, active, fluid, per) ==
    LET N     == prod(dims)
        pts   == gridpoints(dims)
        sa    == stencil_shape(active, Len(dims))
        sf    == stencil_shape(fluid, Len(dims))
        upper == wrap_or_discard(shifted(pts, dim, 1), dim, dims,
                                 collapsed_gather_nd(per, dim, 1))
        lower == wrap_or_discard(shifted(pts, dim, -1), dim, dims,
                                 collapsed_gather_nd(per, dim, 0))
        diag  == [k \in DOMAIN pts |->
                     st.diagonal_entries[k]
                     + stencil_center(fluid, flatten(broadcast_index(k, prod(sf)), sf), dim)]
        A1    == SetEntries(st.A, upper.idx, upper.points,
                            [k \in upper.idx |-> stencil_upper(active, flatten(k, sa), dim)])
        A2    == SetEntries(A1, lower.idx, lower.points,
                            [k \in lower.idx |-> stencil_lower(active, flatten(k, sa), dim)])
    IN  IF st.raised /= "" THEN st
        ELSE IF ~broadcastable(prod(sf), N) THEN [st EXCEPT !.raised = "ValueError"]
        ELSE IF ~in_bounds(upper.idx, prod(sa)) THEN [st EXCEPT !.raised = "IndexError"]
        ELSE IF ~in_bounds(lower.idx, prod(sa)) THEN [st EXCEPT !.raised = "IndexError"]
        ELSE [raised |-> "", A |-> A2, diagonal_entries |-> diag]

RECURSIVE ShapedLoop(_, _, _, _, _, _)
ShapedLoop(st, dim, dims, active, fluid, per) ==
    IF dim > Len(dims) THEN st
    ELSE ShapedLoop(ShapedPass(st, dim, dims, active, fluid, per), dim + 1,
                    dims, active, fluid, per)

\* the outcome of sparse_pressure_matrix: the exception raised, or the matrix
sparse_pressure_matrix_outcome(dims, active, fluid, per) ==
    LET lin == gridpoints_linear(dims)
        st0 == [raised |-> "",
                A |-> [p \in lin \X lin |-> 0],
                diagonal_entries |-> [k \in lin |-> 0]]
        st  == ShapedLoop(st0, 1, dims, active, fluid, per)
    IN  IF st.raised /= "" THEN [raised |-> st.raised, A |-> <<>>]
        ELSE [raised |-> "",
              A |-> [p \in lin \X lin |->
                        IF p[1] = p[2] THEN ClampDiagonal(st.diagonal_entries[p[1]])
                        ELSE st.A[p]]]

\* mask shapes with up to one entry more than documented along an axis
MaskShapes(dims) ==
    {m \in [DOMAIN dims -> 1 .. (MaxCells + 3)] : \A i \in DOMAIN dims : m[i] <= dims[i] + 3}

\* binary masks of one shape that hold one value
ConstantMasks(shape) == {[e \in TensorCells(shape) |-> v] : v \in BinaryValues}

\* pairs (active mask, fluid mask): one of any shape, the other as documented
ShapedPairs(dims) ==
    UNION {(ConstantMasks(m) \X ConstantMasks(extended_shape(dims)))
           \cup (ConstantMasks(extended_shape(dims)) \X ConstantMasks(m)) :
           m \in MaskShapes(dims)}

InitShape ==
    /\ GradientIdle
    /\ ContextIdle
    /\ dimensions \in Shapes
    /\ \E masks \in ShapedPairs(dimensions) :
          /\ extended_active_mask = masks[1]
          /\ extended_fluid_mask = masks[2]
    /\ periodic = NotPeriodic(dimensions)
    /\ A = <<>>
    /\ matrix_pc = "call"
    /\ CGIdle
    /\ SciPyIdle

\* a call of sparse_pressure_matrix: it returns the matrix or raises
BuildShaped ==
    /\ matrix_pc = "call"
    /\ LET out == sparse_pressure_matrix_outcome(dimensions, extended_active_mask,
                                                 extended_fluid_mask, periodic)
       IN  IF out.raised = ""
           THEN A' = out.A /\ matrix_pc' = "return"
           ELSE A' = A /\ matrix_pc' = out.raised
    /\ MasksKept
    /\ UNCHANGED <<context_vars, gradient_vars, periodic, cg_vars, scipy_vars>>

NextShape == BuildShaped

SpecShape == InitShape /\ [][NextShape]_vars

WellShaped(t, dims) == np_shape(t, Len(dims)) = extended_shape(dims)

\* on masks of the documented shape the outcome is the matrix of
\* sparse_pressure_matrix
OutcomeOnDocumentedShape ==
    (matrix_pc /= "call" /\ WellShaped(extended_active_mask, dimensions)
                         /\ WellShaped(extended_fluid_mask, dimensions))
    => /\ matrix_pc = "return"
       /\ A = sparse_pressure_matrix(dimensions, extended_active_mask,
                                     extended_fluid_mask, periodic)

\* C12: a call of sparse_pressure_matrix with a mask whose extent along some
\* axis differs from dimensions[axis] + 2 ends in an error and never returns
\* a matrix.
C12_ShapeMismatchRaises ==
    (matrix_pc /= "call" /\ ~(WellShaped(extended_active_mask, dimensions)
                              /\ WellShaped(extended_fluid_mask, dimensions)))
    => matrix_pc \in {"ValueError", "IndexError"}

(***************************************************************************)
(* The struct context scopes (phi/struct/context.py).  unsafe() and        *)
(* only(...) return a context manager made from the generator              *)
(* _struct_context: entering the with statement appends the object to the  *)
(* module-level list, leaving it - by the end of the body or by an         *)
(* exception - runs the finally clause, which pops the last element.       *)
(*                                                                         *)
(* with_blocks is the program's own nesting of with statements, each with  *)
(* the list as it was just before the statement was entered.  context_pc   *)
(* is "run" while the program executes normally, "left" right after a body *)
(* ended normally, "raise" while an exception propagates that has not yet  *)
(* left a with statement, "unwind" once it has, and "caught" right after   *)
(* an except clause handled it.                                            *)
(***************************************************************************)
\* with statements nest up to MaxDepth deep
MaxDepth == 3

PyFunction(name) == [type |-> "function", num |-> 0, str |-> name]

\* callable(v)
callable(v) == v.type = "function"

\* _ItemTypeContext(item_condition), without the assertion of line 39
ItemTypeContext(item_condition) ==
    [type |-> "_ItemTypeContext", item_condition |-> item_condition]

\* the assertion of _ItemTypeContext.__init__
assert_item_condition(item_condition) == item_condition = PyNone \/ callable(item_condition)

\* a == b for a string a: an _ItemTypeContext defines no __eq__ and is
\* equal to itself only
str_eq(a, b) == b.type = "str" /\ b.str = a

\* _STRUCT_CONTEXT_STACK.append(object)
context_enter(stack, object) == Append(stack, object)

\* variant: the first element is popped, not the last
context_exit_pop_first(stack) == Tail(stack)

\* _STRUCT_CONTEXT_STACK.pop(-1)
context_exit(stack) == SubSeq(stack, 1, Len(stack) - 1)

\* skip_validate() on a list
skip_validate(stack) == \E n \in DOMAIN stack : str_eq("unsafe", stack[n])

\* the arguments only() is called with: None, two item conditions of
\* phi.struct and a string, which is not callable
ItemTypes == {PyNone, PyFunction("VARIABLES"), PyFunction("CONSTANTS"), PyStr("unsafe")}

InitContext ==
    /\ GradientIdle
    /\ dimensions = <<>>
    /\ extended_active_mask = <<>>
    /\ extended_fluid_mask = <<>>
    /\ periodic = <<>>
    /\ A = <<>>
    /\ matrix_pc = "call"
    /\ CGIdle
    /\ SciPyIdle
    /\ ContextIdle

Running == context_pc \in {"run", "left", "caught"}

Raising == context_pc \in {"raise", "unwind"}

\* with ...: the context manager's __enter__ runs the generator up to yield
EnterWith(scope, object) ==
    /\ STRUCT_CONTEXT_STACK' = context_enter(STRUCT_CONTEXT_STACK, object)
    /\ with_blocks' = Append(with_blocks, [scope |-> scope, entered_with |-> STRUCT_CONTEXT_STACK])
    /\ context_pc' = "run"

\* with unsafe():
EnterUnsafe ==
    /\ Running
    /\ Len(with_blocks) < MaxDepth
    /\ EnterWith("unsafe", PyStr("unsafe"))
    /\ UNCHANGED <<domain_vars, A, matrix_vars, cg_vars, scipy_vars, gradient_vars>>

\* with only(item_type): the _ItemTypeContext is constructed before the with
\* statement is entered, and its assertion may fail
EnterOnly(item_type) ==
    /\ Running
    /\ Len(with_blocks) < MaxDepth
    /\ IF assert_item_condition(item_type)
       THEN EnterWith("only", ItemTypeContext(item_type))
       ELSE /\ context_pc' = "raise"
            /\ UNCHANGED <<STRUCT_CONTEXT_STACK, with_blocks>>
    /\ UNCHANGED <<domain_vars, A, matrix_vars, cg_vars, scipy_vars, gradient_vars>>

\* the generator is resumed, or the exception is thrown into it, and the
\* finally clause runs
LeaveWith ==
    /\ with_blocks /= <<>>
    /\ STRUCT_CONTEXT_STACK' = context_exit(STRUCT_CONTEXT_STACK)
    /\ with_blocks' = SubSeq(with_blocks, 1, Len(with_blocks) - 1)

\* the body of the innermost with statement ends
ExitWith ==
    /\ Running
    /\ LeaveWith
    /\ context_pc' = "left"
    /\ UNCHANGED <<domain_vars, A, matrix_vars, cg_vars, scipy_vars, gradient_vars>>

\* the code that is running raises an exception
Raise ==
    /\ Running
    /\ context_pc' = "raise"
    /\ UNCHANGED <<STRUCT_CONTEXT_STACK, with_blocks>>
    /\ UNCHANGED <<domain_vars, A, matrix_vars, cg_vars, scipy_vars, gradient_vars>>

\* the exception leaves the innermost with statement and propagates
ExitWithException ==
    /\ Raising
    /\ LeaveWith
    /\ context_pc' = "unwind"
    /\ UNCHANGED <<domain_vars, A, matrix_vars, cg_vars, scipy_vars, gradient_vars>>

\* an except clause at the current nesting level handles the exception
Catch ==
    /\ Raising
    /\ context_pc' = "caught"
    /\ UNCHANGED <<STRUCT_CONTEXT_STACK, with_blocks>>
    /\ UNCHANGED <<domain_vars, A, matrix_vars, cg_vars, scipy_vars, gradient_vars>>

NextContext ==
    \/ EnterUnsafe
    \/ \E item_type \in ItemTypes : EnterOnly(item_type)
    \/ ExitWith
    \/ Raise
    \/ ExitWithException
    \/ Catch

SpecContext == InitContext /\ [][NextContext]_vars

\* a with statement is left by this step
ScopeExits == Len(with_blocks') < Len(with_blocks)

OpenUnsafe == \E n \in DOMAIN with_blocks : with_blocks[n].scope = "unsafe"

\* C13: when a scope of unsafe() or only(...) is left, by the end of its body
\* or by an exception, the context stack is again the stack from just before
\* the scope was entered; skip_validate() is true exactly while an unsafe()
\* scope is open; the stack is empty while no scope is open.
C13_ScopesRestoreStack ==
    /\ [][ScopeExits
          => STRUCT_CONTEXT_STACK' = with_blocks[Len(with_blocks)].entered_with]_vars
    /\ [](skip_validate(STRUCT_CONTEXT_STACK) <=> OpenUnsafe)
    /\ [](with_blocks = <<>> => STRUCT_CONTEXT_STACK = <<>>)

\* an exception has left an only() scope nested in an unsafe() scope that is
\* still open
C13_Witness ==
    /\ context_pc = "unwind"
    /\ Len(with_blocks) = 1
    /\ with_blocks[1].scope = "unsafe"
    /\ STRUCT_CONTEXT_STACK = <<PyStr("unsafe")>>

(***************************************************************************)
(* Specification of the backward pass of SparseCG.  The divergence belongs *)
(* to the SciPy backend or to a differentiating backend; the latter keeps  *)
(* the closure it is given by with_custom_gradient and calls it when a     *)
(* gradient is asked for, which no code of the solver synchronises with    *)
(* the solve call that made the closure.                                   *)
(***************************************************************************)
Backends == {"SciPy", "TensorFlow"}

GradientCtorArgs ==
    [accuracy : {PyNum(1)},
     gradient_accuracy : {Same},
     max_iterations : {PyNum(MaxIter)},
     max_gradient_iterations : {Mirror, Same, PyNum(0)},
     autodiff : BOOLEAN]

InitGradient ==
    /\ dimensions = SolverShape
    /\ \E masks \in SolverDomains(dimensions) :
          /\ extended_active_mask = masks[1]
          /\ extended_fluid_mask = masks[2]
    /\ periodic = NotPeriodic(dimensions)
    /\ A = <<>>
    /\ matrix_pc = "call"
    /\ ctor_args \in GradientCtorArgs
    /\ ~SparseCG_init(ctor_args).raised
    /\ cg_state = "constructed"
    /\ self = SparseCG_init(ctor_args).self
    /\ solve_pc = "idle"
    /\ pressure_guess = NoGuess
    /\ loop_vars = NoLoopVars
    /\ while_i = 0
    /\ result = NoResult
    /\ SciPyIdle
    /\ ContextIdle
    /\ backend \in Backends
    /\ closures = <<>>
    /\ backward = NoBackward

\* the backend calls the closure it was given by the n-th solve call
Backward(n) ==
    /\ n \in DOMAIN closures
    /\ backward' = pressure_gradient_call(n, closures[n], self)
    /\ UNCHANGED <<domain_vars, A, matrix_vars, cg_vars, scipy_vars, context_vars, backend,
                   closures>>

NextGradient ==
    \/ \E guess \in GuessInputs : \E r0 \in Residuals : CGSolve(guess, r0)
    \/ \E r \in Residuals : WhileBody(r)
    \/ WhileExit
    \/ \E n \in 1 .. MaxCalls : Backward(n)

SpecGradient == InitGradient /\ [][NextGradient]_vars

\* a pressure_gradient closure has been called
BackwardRan == backward.call > 0

BoundCapIsPerCall ==
    (BackwardRan /\ backward.raised = "")
    => backward.max_iterations = mirrored_iterations(self, closures[backward.call].iteration)

====
